---- MODULE Spec2Model ----
(***************************************************************************)
(* FlipAgent agent manager: the agentic tool-calling loop of               *)
(* createAgentManager.handleMessage, the tool dispatch executeTool and the *)
(* transcript normaliser ensureAlternatingRoles.                           *)
(*                                                                         *)
(* Text is modelled as a sequence of tokens (a token stands for a piece of *)
(* a JavaScript string), so that joining, appending, trimming and          *)
(* substring tests are computed rather than assumed.                       *)
(***************************************************************************)
EXTENDS Integers, Sequences, FiniteSets, TLC

\* ---------------------------------------------------------------------------
\* Bounds of the model and constants of the program
\* ---------------------------------------------------------------------------

\* Number of rounds of one handleMessage call in which the model's response
\* may differ from PlainToolResponse (every round may still end the loop).
MaxVaried == 1

\* const MAX_ITERATIONS = 10
MAX_ITERATIONS == 10

\* ---------------------------------------------------------------------------
\* Text
\* ---------------------------------------------------------------------------

NL == "\n"

SP == " "

Last(s) == s[Len(s)]

RECURSIVE Join(_)
\* Array.prototype.join('\n') over an array of strings
Join(texts) ==
  IF texts = <<>> THEN <<>>
  ELSE IF Len(texts) = 1 THEN texts[1]
  ELSE texts[1] \o <<NL>> \o Join(Tail(texts))

\* String.prototype.includes
Includes(s, sub) ==
  \E i \in 1..(Len(s) + 1) :
    /\ i + Len(sub) - 1 <= Len(s)
    /\ SubSeq(s, i, i + Len(sub) - 1) = sub

RECURSIVE TrimStart(_)
TrimStart(s) ==
  IF s # <<>> /\ s[1] \in {SP, NL} THEN TrimStart(Tail(s)) ELSE s

RECURSIVE TrimEnd(_)
TrimEnd(s) ==
  IF s # <<>> /\ Last(s) \in {SP, NL} THEN TrimEnd(SubSeq(s, 1, Len(s) - 1)) ELSE s

\* String.prototype.trim
Trim(s) == TrimEnd(TrimStart(s))

TooLongText ==
  <<"I apologize, but the conversation has grown too long. Please start a new conversation with /new.">>

GenericErrorText ==
  <<"Sorry, I encountered an error processing your request. Please try again.">>

MaxIterationsNotice ==
  <<NL, NL, "(Reached maximum tool call iterations.)">>

ConversationStart == <<"(conversation start)">>

SummaryAck ==
  <<"I understand the context from our previous conversation. How can I help?">>

\* ---------------------------------------------------------------------------
\* Transcript values (Anthropic.MessageParam)
\* ---------------------------------------------------------------------------

StringContent(t) == [type |-> "string", text |-> t, blocks |-> <<>>]

BlockContent(bs) == [type |-> "blocks", text |-> <<>>, blocks |-> bs]

Turn(r, c) == [role |-> r, content |-> c]

NoInput == [platform |-> "", policyType |-> "", query |-> <<>>]

TextBlock(t) ==
  [type |-> "text", text |-> t, id |-> "", name |-> "", input |-> NoInput, content |-> <<>>]

ToolUseBlock(i, n, in) ==
  [type |-> "tool_use", text |-> <<>>, id |-> i, name |-> n, input |-> in, content |-> <<>>]

ToolResultBlockParam(i, c) ==
  [type |-> "tool_result", text |-> <<>>, id |-> i, name |-> "", input |-> NoInput, content |-> c]

\* ---------------------------------------------------------------------------
\* ensureAlternatingRoles
\* ---------------------------------------------------------------------------

\* One pass of the for loop over the input messages
MergeStep(result, msg) ==
  IF result # <<>> /\ Last(result).role = msg.role
  THEN IF Last(result).content.type = "string" /\ msg.content.type = "string"
       THEN [result EXCEPT ![Len(result)].content =
               StringContent(Last(result).content.text \o <<NL>> \o msg.content.text)]
       ELSE result
  ELSE Append(result, msg)

RECURSIVE MergeAll(_, _)
MergeAll(result, messages) ==
  IF messages = <<>> THEN result
  ELSE MergeAll(MergeStep(result, messages[1]), Tail(messages))

ensureAlternatingRoles_NoFiller(messages) == MergeAll(<<>>, messages)

ensureAlternatingRoles(messages) ==
  IF messages = <<>> THEN <<>>
  ELSE LET result == MergeAll(<<>>, messages)
       IN IF result # <<>> /\ result[1].role # "user"
          THEN <<Turn("user", StringContent(ConversationStart))>> \o result
          ELSE result

\* ---------------------------------------------------------------------------
\* Credentials and data store as executeTool sees them
\* ---------------------------------------------------------------------------

Platforms == {"amazon", "ebay", "walmart", "aliexpress"}

\* credentials.getCredentials(userId, platform): a stored record or null
NoCreds == [stored |-> FALSE, fields |-> {}]

StoredCreds(fs) == [stored |-> TRUE, fields |-> fs]

\* getUserCreds: the record stored under each platform key
getUserCreds(creds) ==
  [amazon |-> creds["amazon"], ebay |-> creds["ebay"], walmart |-> creds["walmart"],
   aliexpress |-> creds["aliexpress"], keepa |-> creds["amazon"], easypost |-> creds["ebay"]]

\* ---------------------------------------------------------------------------
\* executeTool
\* ---------------------------------------------------------------------------

\* The values a tool returns: { status, message } or { error }
ToolValue(st, er, msg) == [status |-> st, error |-> er, message |-> msg]

Returned(v, db) ==
  [threw |-> FALSE, value |-> v, err |-> <<>>, products |-> db, invoked |-> FALSE]

Threw(e, db) ==
  [threw |-> TRUE, value |-> ToolValue("", <<>>, <<>>), err |-> e, products |-> db,
   invoked |-> FALSE]

\* The outcome of a tool that has called a platform wrapper on its way
Invoked(out) == [out EXCEPT !.invoked = TRUE]

\* What the outside world does during one tool execution
ToolEnvs == {"ok", "wrapper_fails", "store_fails"}

\* storeResults: db.upsertProduct + db.addPrice for every search result
storeResults(db, results) == db \cup {results[i] : i \in 1..Len(results)}

\* The message of a scanner whose platform has no stored credentials
NotConfiguredText(platform) ==
  CASE platform = "amazon" ->
         <<"Amazon credentials not configured. Use setup_amazon_credentials first.">>
    [] platform = "ebay" ->
         <<"eBay credentials not configured. Use setup_ebay_credentials first.">>
    [] platform = "walmart" ->
         <<"Walmart credentials not configured. Use setup_walmart_credentials first.">>
    [] platform = "aliexpress" ->
         <<"AliExpress credentials not configured. Use setup_aliexpress_credentials first.">>

\* Mutant: the scanner goes to the platform whatever is stored
ScanPlatform_NoGate(platform, platformCreds, env, db) ==
  Invoked(IF env = "wrapper_fails" THEN Threw(<<platform, " search failed">>, db)
          ELSE IF env = "store_fails" THEN Threw(<<"database write failed">>, db)
          ELSE Returned(ToolValue("ok", <<>>, <<>>), storeResults(db, <<platform>>)))

\* The body shared by the four scanner cases: the credential gate, the
\* adapter's search, storeResults
ScanPlatform(platform, platformCreds, env, db) ==
  IF ~platformCreds.stored
  THEN Returned(ToolValue("error", <<>>, NotConfiguredText(platform)), db)
  ELSE Invoked(IF env = "wrapper_fails" THEN Threw(<<platform, " search failed">>, db)
               ELSE IF env = "store_fails" THEN Threw(<<"database write failed">>, db)
               ELSE Returned(ToolValue("ok", <<>>, <<>>), storeResults(db, <<platform>>)))

\* case 'scan_amazon'
ScanAmazon(creds, env, db) == ScanPlatform("amazon", creds.amazon, env, db)

\* case 'scan_ebay'
ScanEbay(creds, env, db) == ScanPlatform("ebay", creds.ebay, env, db)

\* case 'scan_walmart'
ScanWalmart(creds, env, db) == ScanPlatform("walmart", creds.walmart, env, db)

\* case 'scan_aliexpress'
ScanAliexpress(creds, env, db) == ScanPlatform("aliexpress", creds.aliexpress, env, db)

\* case 'ebay_get_policies', over createEbayAccountApi(...).fetchJson
EbayGetPolicies(creds, env, db) ==
  IF ~(creds.ebay.stored /\ "refreshToken" \in creds.ebay.fields)
  THEN Returned(ToolValue("error", <<>>,
         <<"eBay credentials with refresh token required.">>), db)
  ELSE Invoked(IF env = "wrapper_fails"
               THEN Threw(<<"eBay Account API (", "500", "): ", "upstream error">>, db)
               ELSE Returned(ToolValue("ok", <<>>, <<>>), db))

\* case 'check_stock'
CheckStock(creds, env, db) ==
  Invoked(IF env = "wrapper_fails"
          THEN Returned(ToolValue("error", <<>>, <<"Stock check failed: ", "timeout">>), db)
          ELSE Returned(ToolValue("ok", <<>>, <<>>), db))

\* case 'fee_calculator'
FeeCalculator(input, db) == Returned(ToolValue("ok", <<>>, <<>>), db)

\* default: unknown tool
UnknownTool(toolName, db) ==
  Returned(ToolValue("", <<"Unknown tool: ", toolName>>, <<>>), db)

\* async function executeTool(toolName, input, context): the switch
executeTool(toolName, input, credentials, env, db) ==
  LET creds == getUserCreds(credentials)
  IN CASE toolName = "scan_amazon" -> ScanAmazon(creds, env, db)
       [] toolName = "scan_ebay" -> ScanEbay(creds, env, db)
       [] toolName = "scan_walmart" -> ScanWalmart(creds, env, db)
       [] toolName = "scan_aliexpress" -> ScanAliexpress(creds, env, db)
       [] toolName = "ebay_get_policies" -> EbayGetPolicies(creds, env, db)
       [] toolName = "check_stock" -> CheckStock(creds, env, db)
       [] toolName = "fee_calculator" -> FeeCalculator(input, db)
       [] OTHER -> UnknownTool(toolName, db)

\* JSON.stringify of a tool's value
Stringify(v) ==
  <<"{">>
  \o (IF v.status # "" THEN <<"status:", v.status>> ELSE <<>>)
  \o (IF v.error # <<>> THEN <<"error:">> \o v.error ELSE <<>>)
  \o (IF v.message # <<>> THEN <<"message:">> \o v.message ELSE <<>>)
  \o <<"}">>

\* ---------------------------------------------------------------------------
\* The pieces of handleMessage's loop
\* ---------------------------------------------------------------------------

\* Mutant: the loop admits one iteration too many
LoopContinues_OffByOne(i) == i <= MAX_ITERATIONS

\* while (iterations < MAX_ITERATIONS)
LoopContinues(i) == i < MAX_ITERATIONS

\* if (iterations >= MAX_ITERATIONS)
HitMaxIterations(i) == i >= MAX_ITERATIONS

\* Mutant: the notice is never appended
AfterLoopText_NoNotice(ft, i) == ft

\* finalText after the loop: the notice is appended when the counter is at the cap
AfterLoopText(ft, i) ==
  IF HitMaxIterations(i) THEN ft \o MaxIterationsNotice ELSE ft

\* catch of the model call: the fallback text chosen from the error message
ClassifyModelError(errMsg) ==
  IF Includes(errMsg, <<"prompt is too long">>) \/ Includes(errMsg, <<"max_tokens">>)
  THEN TooLongText
  ELSE GenericErrorText

RECURSIVE SelectBlocks(_, _)
SelectBlocks(content, ty) ==
  IF content = <<>> THEN <<>>
  ELSE IF content[1].type = ty
       THEN <<content[1]>> \o SelectBlocks(Tail(content), ty)
       ELSE SelectBlocks(Tail(content), ty)

\* textBlocks: the text of every block of type 'text', in order
TextBlocksOf(content) ==
  LET bs == SelectBlocks(content, "text") IN [i \in 1..Len(bs) |-> bs[i].text]

\* Mutant: only the first invocation of a response is taken up
ToolUseBlocksOf_FirstOnly(content) ==
  LET bs == SelectBlocks(content, "tool_use") IN IF bs = <<>> THEN <<>> ELSE <<bs[1]>>

\* toolUseBlocks: every block of type 'tool_use', in order
ToolUseBlocksOf(content) == SelectBlocks(content, "tool_use")

\* Mutant: the catch block of the model call goes on to the next iteration
OnModelError_Retry(errMsg) ==
  [next |-> "continue", finalText |-> ClassifyModelError(errMsg)]

\* the catch block of the model call: the fallback text, then break
OnModelError(errMsg) == [next |-> "break", finalText |-> ClassifyModelError(errMsg)]

\* Mutant: executeTool is awaited without a try/catch
ToolCallResult_NoCatch(out) ==
  [rejected |-> out.threw, result |-> out.value]

\* the try/catch around executeTool: the result, or the error escaping handleMessage
ToolCallResult(out) ==
  IF out.threw
  THEN [rejected |-> FALSE,
        result |-> ToolValue("", <<"Tool execution failed: ">> \o out.err, <<>>)]
  ELSE [rejected |-> FALSE, result |-> out.value]

\* Mutant: the result is keyed by the tool's name instead of the invocation id
ToolResultFor_KeyedByName(toolCall, result) ==
  ToolResultBlockParam(toolCall.name, Stringify(result))

\* toolResults.push({ type: 'tool_result', tool_use_id, content })
ToolResultFor(toolCall, result) ==
  ToolResultBlockParam(toolCall.id, Stringify(result))

\* Mutant: only the tool results are appended, the assistant turn is lost
NextMessages_ResultsOnly(cur, resp, results) ==
  cur \o <<Turn("user", BlockContent(results))>>

\* Mutant: only the assistant turn is appended, the tool results are lost
NextMessages_AssistantOnly(cur, resp, results) ==
  cur \o <<Turn("assistant", BlockContent(resp.content))>>

\* currentMessages = [...currentMessages, assistant response, user tool results]
NextMessages(cur, resp, results) ==
  cur \o <<Turn("assistant", BlockContent(resp.content)),
           Turn("user", BlockContent(results))>>

\* if (response.stop_reason === 'end_turn' && textBlocks.length > 0)
EndTurnAfterTools(resp) ==
  resp.stop_reason = "end_turn" /\ Len(TextBlocksOf(resp.content)) > 0

\* apiMessages: the optional summary pair, then the session history
BuildApiMessages(summary, hist) ==
  (IF summary # <<>>
   THEN <<Turn("user", StringContent(<<"[Previous conversation summary: ">> \o summary \o <<"]">>)),
          Turn("assistant", StringContent(SummaryAck))>>
   ELSE <<>>)
  \o [i \in 1..Len(hist) |-> Turn(hist[i].role, StringContent(hist[i].content))]

\* ---------------------------------------------------------------------------
\* What the model (the chat-completion provider) and the caller may send
\* ---------------------------------------------------------------------------

TextA == <<"a">>

TextB == <<"b">>

Response(c, sr) == [content |-> c, stop_reason |-> sr]

NoResponse == Response(<<>>, "")

\* One tool call that cannot fail, no text
PlainToolResponse ==
  Response(<<ToolUseBlock("toolu_1", "fee_calculator", NoInput)>>, "tool_use")

TextOnlyResponses ==
  { Response(<<TextBlock(TextA)>>, "end_turn"),
    Response(<<TextBlock(TextA), TextBlock(TextB)>>, "end_turn"),
    Response(<<>>, "end_turn") }

VariedToolResponses ==
  { Response(<<TextBlock(TextA),
               ToolUseBlock("toolu_1", "ebay_get_policies", NoInput),
               ToolUseBlock("toolu_2", "check_stock", NoInput)>>, "tool_use"),
    Response(<<TextBlock(TextA),
               ToolUseBlock("toolu_1", "scan_amazon", NoInput)>>, "end_turn"),
    Response(<<ToolUseBlock("toolu_1", "no_such_tool", NoInput),
               ToolUseBlock("toolu_1", "scan_amazon", NoInput)>>, "end_turn"),
    Response(<<TextBlock(TextA),
               ToolUseBlock("toolu_2", "scan_amazon", NoInput),
               TextBlock(TextB)>>, "tool_use") }

ModelResponses == TextOnlyResponses \cup {PlainToolResponse} \cup VariedToolResponses

ModelErrors ==
  { <<"400 ", "prompt is too long", ": 210000 tokens">>,
    <<"max_tokens", " must be positive">>,
    <<"429 rate limited">> }

MessageTexts == { <<SP, "scan", SP, "amazon", NL>>, <<SP, NL>> }

InitHistories ==
  { <<>>,
    <<[role |-> "assistant", content |-> <<"earlier answer">>]>>,
    <<[role |-> "user", content |-> <<"earlier question">>]>> }

InitSummaries == { <<>>, <<"summary">> }

\* The fields of a platform's full credential record
CredentialFields(p) ==
  CASE p = "amazon" -> {"accessKeyId", "secretAccessKey", "partnerTag", "marketplace"}
    [] p = "ebay" -> {"clientId", "clientSecret", "refreshToken", "environment"}
    [] p = "walmart" -> {"clientId", "clientSecret"}
    [] p = "aliexpress" -> {"appKey", "appSecret"}

InitCredentials ==
  { [p \in Platforms |-> NoCreds],
    [p \in Platforms |-> StoredCreds(CredentialFields(p))] }

RECURSIVE VariedRounds(_)
\* The rounds of a transcript whose assistant turn is not PlainToolResponse's
VariedRounds(msgs) ==
  IF msgs = <<>> THEN 0
  ELSE (IF /\ msgs[1].role = "assistant"
           /\ msgs[1].content.type = "blocks"
           /\ msgs[1].content.blocks # PlainToolResponse.content
        THEN 1 ELSE 0) + VariedRounds(Tail(msgs))

\* ---------------------------------------------------------------------------
\* State
\* ---------------------------------------------------------------------------

VARIABLES
  pc,               \* where handleMessage is: idle, awaiting_model, executing_tools, done
  msgText,          \* message.text of the call
  history,          \* the session's history (sessionManager)
  contextSummary,   \* session.context.contextSummary ('' when absent)
  credentials,      \* the user's stored credentials
  products,         \* product rows of the data store
  currentMessages,  \* the transcript submitted to the model
  iterations,       \* the loop counter
  finalText,        \* finalText
  response,         \* the model response being handled
  toolResults,      \* the tool_result blocks of the round
  outcome,          \* how the promise of handleMessage settled
  modelCalls,       \* number of model calls made by the call
  toolCalls,        \* number of executeTool calls made by the call
  executed,         \* the executeTool calls of the round: id, name, threw
  modelFailed,      \* the model call of this handleMessage call has failed
  lastError,        \* errMsg of the failed model call
  fnPc,             \* a function called on its own: off, ready, returned
  fnIn,             \* its arguments
  fnOut,            \* what it returned
  ext               \* the state of a component outside the loop, when one is run

vars ==
  <<pc, msgText, history, contextSummary, credentials, products, currentMessages,
    iterations, finalText, response, toolResults, outcome, modelCalls, toolCalls,
    executed, modelFailed, lastError, fnPc, fnIn, fnOut, ext>>

loopVars ==
  <<pc, msgText, history, contextSummary, credentials, products, currentMessages,
    iterations, finalText, response, toolResults, outcome, modelCalls, toolCalls,
    executed, modelFailed, lastError>>

fnVars == <<fnPc, fnIn, fnOut>>

Pending == [state |-> "pending", isNull |-> FALSE, text |-> <<>>]

ResolvedNull == [state |-> "resolved", isNull |-> TRUE, text |-> <<>>]

ResolvedText(t) == [state |-> "resolved", isNull |-> FALSE, text |-> t]

Rejected(e) == [state |-> "rejected", isNull |-> FALSE, text |-> e]

Init ==
  /\ pc = "idle"
  /\ msgText = <<>>
  /\ history \in InitHistories
  /\ contextSummary \in InitSummaries
  /\ credentials \in InitCredentials
  /\ products = {}
  /\ currentMessages = <<>>
  /\ iterations = 0
  /\ finalText = <<>>
  /\ response = NoResponse
  /\ toolResults = <<>>
  /\ outcome = Pending
  /\ modelCalls = 0
  /\ toolCalls = 0
  /\ executed = <<>>
  /\ modelFailed = FALSE
  /\ lastError = <<>>
  /\ fnPc = "off"
  /\ fnIn = <<>>
  /\ fnOut = <<>>
  /\ ext = <<>>

\* ---------------------------------------------------------------------------
\* handleMessage
\* ---------------------------------------------------------------------------

\* Mutant: the final text is saved to the history even when it is empty
SaveAssistant_Always(hist, text) == Append(hist, [role |-> "assistant", content |-> text])

\* if (finalText) sessionManager.addToHistory(session, 'assistant', finalText)
SaveAssistant(hist, text) ==
  IF text # <<>> THEN Append(hist, [role |-> "assistant", content |-> text]) ELSE hist

\* After the loop: the notice, the assistant entry of the history, the reply
\* (sendMessage defaults to returning msg.text)
Finish(msgs, iters, ft, hist) ==
  LET text == AfterLoopText(ft, iters)
  IN /\ pc' = "done"
     /\ currentMessages' = msgs
     /\ iterations' = iters
     /\ finalText' = text
     /\ history' = SaveAssistant(hist, text)
     /\ outcome' = IF text # <<>> THEN ResolvedText(text) ELSE ResolvedNull
     /\ modelCalls' = modelCalls

\* An error escapes handleMessage: its promise rejects
Reject(e) ==
  /\ pc' = "done"
  /\ outcome' = Rejected(e)
  /\ UNCHANGED <<currentMessages, iterations, finalText, history, modelCalls>>

\* The head of the while loop: one more iteration and model call, or the end
LoopHead(msgs, iters, ft, hist) ==
  IF LoopContinues(iters)
  THEN /\ pc' = "awaiting_model"
       /\ currentMessages' = msgs
       /\ iterations' = iters + 1
       /\ finalText' = ft
       /\ history' = hist
       /\ outcome' = outcome
       /\ modelCalls' = modelCalls + 1
  ELSE Finish(msgs, iters, ft, hist)

\* handleMessage up to the first model call
HandleMessage(text) ==
  /\ pc = "idle"
  /\ UNCHANGED <<fnVars, ext>>
  /\ msgText' = text
  /\ UNCHANGED <<contextSummary, credentials, products, response, toolResults,
                 toolCalls, executed, modelFailed, lastError>>
  /\ IF Trim(text) = <<>>
     THEN /\ pc' = "done"
          /\ outcome' = ResolvedNull
          /\ UNCHANGED <<history, currentMessages, iterations, finalText, modelCalls>>
     ELSE LET hist == Append(history, [role |-> "user", content |-> Trim(text)])
              cleanedMessages == ensureAlternatingRoles(BuildApiMessages(contextSummary, hist))
          IN LoopHead(cleanedMessages, 0, <<>>, hist)

\* stream.finalMessage() resolves
ModelResponds(r) ==
  /\ pc = "awaiting_model"
  /\ UNCHANGED <<fnVars, ext>>
  /\ \/ r \in TextOnlyResponses
     \/ r = PlainToolResponse
     \/ VariedRounds(currentMessages) < MaxVaried
  /\ response' = r
  /\ toolResults' = <<>>
  /\ executed' = <<>>
  /\ UNCHANGED <<msgText, contextSummary, credentials, products, toolCalls, modelFailed,
                 lastError>>
  /\ IF ToolUseBlocksOf(r.content) = <<>>
     THEN Finish(currentMessages, iterations, Join(TextBlocksOf(r.content)), history)
     ELSE /\ pc' = "executing_tools"
          /\ UNCHANGED <<currentMessages, iterations, finalText, history, outcome, modelCalls>>

\* the model call throws
ModelFails(errMsg) ==
  /\ pc = "awaiting_model"
  /\ UNCHANGED <<fnVars, ext>>
  /\ modelFailed' = TRUE
  /\ lastError' = errMsg
  /\ UNCHANGED <<msgText, contextSummary, credentials, products, response, toolResults,
                 toolCalls, executed>>
  /\ LET caught == OnModelError(errMsg)
     IN CASE caught.next = "break" ->
               Finish(currentMessages, iterations, caught.finalText, history)
          [] caught.next = "continue" ->
               LoopHead(currentMessages, iterations, caught.finalText, history)
          [] OTHER -> Reject(errMsg)

\* one pass of the for loop over toolUseBlocks; after the last one, the rest of
\* the loop body and what follows it up to the next model call
ExecuteNextTool(env) ==
  /\ pc = "executing_tools"
  /\ UNCHANGED <<fnVars, ext>>
  /\ LET calls == ToolUseBlocksOf(response.content)
         toolCall == calls[Len(toolResults) + 1]
         out == executeTool(toolCall.name, toolCall.input, credentials, env, products)
         settled == ToolCallResult(out)
         results == Append(toolResults, ToolResultFor(toolCall, settled.result))
     IN /\ products' = out.products
        /\ toolCalls' = toolCalls + 1
        /\ executed' = Append(executed,
                         [id |-> toolCall.id, name |-> toolCall.name, threw |-> out.threw])
        /\ IF settled.rejected
           THEN /\ Reject(out.err)
                /\ toolResults' = toolResults
           ELSE /\ toolResults' = results
                /\ IF Len(results) < Len(calls)
                   THEN UNCHANGED <<pc, currentMessages, iterations, finalText, history,
                                    outcome, modelCalls>>
                   ELSE LET msgs == NextMessages(currentMessages, response, results)
                        IN IF EndTurnAfterTools(response)
                           THEN Finish(msgs, iterations,
                                       Join(TextBlocksOf(response.content)), history)
                           ELSE LoopHead(msgs, iterations, finalText, history)
  /\ UNCHANGED <<msgText, contextSummary, credentials, response, modelFailed, lastError>>

Next ==
  \/ \E text \in MessageTexts : HandleMessage(text)
  \/ \E r \in ModelResponses : ModelResponds(r)
  \/ \E errMsg \in ModelErrors : ModelFails(errMsg)
  \/ \E env \in ToolEnvs : ExecuteNextTool(env)

Spec == Init /\ [][Next]_vars

\* The steps of a running handleMessage call: the model call settles (the SDK
\* resolves or rejects it) and a tool execution returns or throws
LoopStep ==
  \/ \E r \in ModelResponses : ModelResponds(r)
  \/ \E errMsg \in ModelErrors : ModelFails(errMsg)
  \/ \E env \in ToolEnvs : ExecuteNextTool(env)

LiveSpec == Init /\ [][Next]_vars /\ WF_vars(LoopStep)

\* ---------------------------------------------------------------------------
\* Observations used by the properties
\* ---------------------------------------------------------------------------

NoticeText == <<"(Reached maximum tool call iterations.)">>

\* the tool invocations of the response being handled
Calls == ToolUseBlocksOf(response.content)

\* the call ended on the round of tool executions of `response`
EndedAfterTools ==
  /\ pc = "done"
  /\ outcome.state = "resolved"
  /\ ~modelFailed
  /\ Calls # <<>>

Ids(blocks) == [i \in 1..Len(blocks) |-> blocks[i].id]

\* ---------------------------------------------------------------------------
\* C1: one handleMessage call makes at most 10 model calls and then ends; when
\* all 10 responses requested tools the returned text contains the
\* maximum-iterations notice.
\* ---------------------------------------------------------------------------
C1_LoopEndsWithinCap ==
  /\ [](modelCalls <= MAX_ITERATIONS)
  /\ []((EndedAfterTools /\ modelCalls = MAX_ITERATIONS) =>
          (~outcome.isNull /\ Includes(outcome.text, NoticeText)))
  /\ ((pc # "idle") ~> (pc = "done"))

C1_Witness ==
  /\ EndedAfterTools
  /\ modelCalls = MAX_ITERATIONS
  /\ Includes(outcome.text, NoticeText)

\* ---------------------------------------------------------------------------
\* More observations
\* ---------------------------------------------------------------------------

IsToolRound(t) == t.role = "assistant" /\ t.content.type = "blocks"

\* every invocation of the response being handled has been executed
RoundComplete == Calls # <<>> /\ Len(executed) = Len(Calls)

\* a tool_result content that carries an error: { error: ... } or { status: 'error', ... }
ErrorShapedContent(c) ==
  Includes(c, <<"error:">>) \/ Includes(c, <<"status:", "error">>)

\* some execution of the round threw or yielded an error payload
RoundHadFailure ==
  \E i \in 1..Len(executed) :
    \/ executed[i].threw
    \/ (i <= Len(toolResults) /\ ErrorShapedContent(toolResults[i].content))

\* the response being handled has stop_reason end_turn and a text block
EndTurnWithText ==
  /\ response.stop_reason = "end_turn"
  /\ \E i \in 1..Len(response.content) : response.content[i].type = "text"

\* the trimmed text of the message is not empty
HasText == Trim(msgText) # <<>>

RECURSIVE LoopTexts(_)
\* the text segments of the assistant turns appended during the loop, in order
LoopTexts(msgs) ==
  IF msgs = <<>> THEN <<>>
  ELSE (IF IsToolRound(msgs[1]) THEN TextBlocksOf(msgs[1].content.blocks) ELSE <<>>)
       \o LoopTexts(Tail(msgs))

\* ---------------------------------------------------------------------------
\* C2: the user turn appended after an assistant turn with tool invocations
\* X1..Xn holds exactly n tool results, with tool_use_id X1..Xn in that order,
\* also when executions fail.
\* ---------------------------------------------------------------------------
C2_ResultsMatchInvocations ==
  /\ \A i \in 1..Len(currentMessages) :
       IsToolRound(currentMessages[i]) =>
         /\ i < Len(currentMessages)
         /\ currentMessages[i + 1].role = "user"
         /\ currentMessages[i + 1].content.type = "blocks"
         /\ \A j \in 1..Len(currentMessages[i + 1].content.blocks) :
              currentMessages[i + 1].content.blocks[j].type = "tool_result"
         /\ Ids(currentMessages[i + 1].content.blocks)
              = Ids(ToolUseBlocksOf(currentMessages[i].content.blocks))
  /\ (RoundComplete /\ outcome.state # "rejected") =>
       /\ Len(currentMessages) >= 2
       /\ currentMessages[Len(currentMessages) - 1]
            = Turn("assistant", BlockContent(response.content))
       /\ Ids(currentMessages[Len(currentMessages)].content.blocks) = Ids(Calls)

C2_Witness ==
  \E i \in 1..(Len(currentMessages) - 1) :
    /\ IsToolRound(currentMessages[i])
    /\ Ids(currentMessages[i + 1].content.blocks) = <<"toolu_1", "toolu_2">>
    /\ Includes(currentMessages[i + 1].content.blocks[1].content,
                <<"Tool execution failed: ">>)

\* ---------------------------------------------------------------------------
\* C3: executeTool never throws: an unregistered name, a missing credential and
\* a failure of a platform wrapper or of the data store each give a returned
\* error payload.
\* ---------------------------------------------------------------------------
C3_ExecuteToolNeverThrows ==
  \A i \in 1..Len(executed) : ~executed[i].threw

\* ---------------------------------------------------------------------------
\* C4: a failing tool execution never ends the loop: an error-shaped result is
\* recorded for it, the remaining invocations are executed, handleMessage does
\* not reject, and below the cap the model is called again.
\* ---------------------------------------------------------------------------
C4_Recorded ==
  /\ outcome.state # "rejected"
  /\ \A i \in 1..Len(executed) :
       executed[i].threw =>
         /\ i <= Len(toolResults)
         /\ toolResults[i].id = executed[i].id
         /\ ErrorShapedContent(toolResults[i].content)
  /\ (pc = "done" /\ ~modelFailed /\ Calls # <<>>) => RoundComplete

\* C4 as claimed: after a round with a failure the call ends only at the cap
C4_FailureNeverEndsLoop ==
  /\ C4_Recorded
  /\ (EndedAfterTools /\ RoundHadFailure) => iterations >= MAX_ITERATIONS

\* C4 as amended: ... or on a response with stop_reason end_turn and a text block
C4_FailureEndsLoopOnlyAtCapOrEndTurn ==
  /\ C4_Recorded
  /\ (EndedAfterTools /\ RoundHadFailure) =>
       (iterations >= MAX_ITERATIONS \/ EndTurnWithText)

C4_Witness ==
  /\ pc = "awaiting_model"
  /\ Len(executed) = 2
  /\ executed[1].threw
  /\ ErrorShapedContent(toolResults[1].content)
  /\ iterations < MAX_ITERATIONS

\* ---------------------------------------------------------------------------
\* C5: once a model call has failed, the handleMessage call is over: no further
\* model call and no further tool execution is made.
\* ---------------------------------------------------------------------------
C5_NoRetryAfterModelError ==
  /\ [](modelFailed => pc = "done")
  /\ [][modelFailed' => (modelCalls' = modelCalls /\ toolCalls' = toolCalls)]_vars

C5_Witness ==
  /\ modelFailed
  /\ pc = "done"
  /\ modelCalls > 1
  /\ toolCalls > 0

\* ---------------------------------------------------------------------------
\* C6: when the model call fails, at whichever iteration, the returned text is
\* exactly the too-long string (error message contains 'prompt is too long' or
\* 'max_tokens') or exactly the generic string, nothing appended.
\* ---------------------------------------------------------------------------
C6_FallbackTextExact ==
  modelFailed =>
    outcome =
      ResolvedText(IF \/ Includes(lastError, <<"prompt is too long">>)
                      \/ Includes(lastError, <<"max_tokens">>)
                   THEN TooLongText
                   ELSE GenericErrorText)

\* ---------------------------------------------------------------------------
\* C7: if the k-th response is the first without a tool invocation, the loop
\* makes exactly k model calls and the final text is the newline-join of that
\* response's text segments.
\* ---------------------------------------------------------------------------
C7_FinalTextIsJoin ==
  (pc = "done" /\ HasText /\ ~modelFailed /\ response # NoResponse /\ Calls = <<>>) =>
    /\ modelCalls = Len(SelectSeq(currentMessages, IsToolRound)) + 1
    /\ finalText = Join(TextBlocksOf(response.content))

\* ---------------------------------------------------------------------------
\* C8: after a round of tool executions the model is called again with a
\* transcript ending in the assistant's raw response and the tool-results turn;
\* the loop does not end directly after executing tools except at the cap.
\* ---------------------------------------------------------------------------
C8_Resubmitted ==
  (pc = "awaiting_model" /\ modelCalls > 1) =>
    /\ RoundComplete
    /\ Len(currentMessages) >= 2
    /\ SubSeq(currentMessages, Len(currentMessages) - 1, Len(currentMessages))
         = <<Turn("assistant", BlockContent(response.content)),
             Turn("user", BlockContent(toolResults))>>

\* C8 as claimed
C8_EndsAfterToolsOnlyAtCap ==
  /\ C8_Resubmitted
  /\ EndedAfterTools => iterations >= MAX_ITERATIONS

\* C8 as amended: ... or on a response with stop_reason end_turn and a text block
C8_EndsAfterToolsOnlyAtCapOrEndTurn ==
  /\ C8_Resubmitted
  /\ EndedAfterTools => (iterations >= MAX_ITERATIONS \/ EndTurnWithText)

C8_Witness ==
  /\ pc = "awaiting_model"
  /\ modelCalls > 1
  /\ iterations < MAX_ITERATIONS
  /\ Len(toolResults) = 2

\* ---------------------------------------------------------------------------
\* C9: when the loop stops at the iteration cap, the final text is the text the
\* model produced during the loop followed by the maximum-iterations notice.
\* ---------------------------------------------------------------------------
C9_PartialTextKept ==
  (EndedAfterTools /\ iterations >= MAX_ITERATIONS) =>
    outcome = ResolvedText(Join(LoopTexts(currentMessages)) \o MaxIterationsNotice)

\* ---------------------------------------------------------------------------
\* C10: for a message with non-empty trimmed text handleMessage resolves to a
\* non-empty text; it never resolves to null and never rejects.
\* ---------------------------------------------------------------------------
C10_AlwaysNonEmptyText ==
  (pc = "done" /\ HasText) =>
    /\ outcome.state = "resolved"
    /\ ~outcome.isNull
    /\ outcome.text # <<>>

\* C10 as amended: it never rejects, and it resolves to null exactly when the
\* loop ends below the cap on a response whose text segments join to ''
C10_NonEmptyTextOrNullOnEmptyAnswer ==
  (pc = "done" /\ HasText) =>
    /\ outcome.state = "resolved"
    /\ outcome.isNull <=>
         /\ iterations < MAX_ITERATIONS
         /\ ~modelFailed
         /\ Join(TextBlocksOf(response.content)) = <<>>
    /\ ~outcome.isNull => outcome.text # <<>>

C10_Witness ==
  /\ pc = "done"
  /\ HasText
  /\ outcome = ResolvedNull
  /\ modelCalls > 1

\* ---------------------------------------------------------------------------
\* ensureAlternatingRoles called on its own, on every transcript of at most
\* MaxTurns turns
\* ---------------------------------------------------------------------------

MaxTurns == 3

ToolBlocks == BlockContent(<<ToolResultBlockParam("toolu_1", <<"{}">>)>>)

TurnContents ==
  { StringContent(<<"x">>), StringContent(<<"y">>), StringContent(ConversationStart),
    ToolBlocks }

Turns == { Turn(r, c) : r \in {"user", "assistant"}, c \in TurnContents }

Transcripts == UNION { [1..n -> Turns] : n \in 0..MaxTurns }

\* The loop is not running while a function is called on its own
LoopOff ==
  /\ pc = "off"
  /\ msgText = <<>>
  /\ history = <<>>
  /\ contextSummary = <<>>
  /\ credentials = NoCreds
  /\ products = {}
  /\ currentMessages = <<>>
  /\ iterations = 0
  /\ finalText = <<>>
  /\ response = NoResponse
  /\ toolResults = <<>>
  /\ outcome = Pending
  /\ modelCalls = 0
  /\ toolCalls = 0
  /\ executed = <<>>
  /\ modelFailed = FALSE
  /\ lastError = <<>>

InitNormalize ==
  /\ LoopOff
  /\ fnPc = "ready"
  /\ ext = <<>>
  /\ fnIn \in Transcripts
  /\ fnOut = <<>>

CallEnsureAlternatingRoles ==
  /\ fnPc = "ready"
  /\ fnPc' = "returned"
  /\ fnOut' = ensureAlternatingRoles(fnIn)
  /\ UNCHANGED <<fnIn, loopVars, ext>>

NextNormalize == CallEnsureAlternatingRoles

SpecNormalize == InitNormalize /\ [][NextNormalize]_vars

IsPlain(turn) == turn.content.type = "string"

IsPrefix(p, t) == Len(p) <= Len(t) /\ SubSeq(t, 1, Len(p)) = p

\* The output turn o starts with what the input turn i holds
StartsWith(o, i) ==
  /\ o.role = i.role
  /\ o.content.type = i.content.type
  /\ IF IsPlain(i) THEN IsPrefix(i.content.text, o.content.text)
                   ELSE o.content = i.content

FillerTurn == [role |-> "user", content |-> StringContent(ConversationStart)]

\* ---------------------------------------------------------------------------
\* C11: for a non-empty input ensureAlternatingRoles returns a non-empty
\* transcript whose first turn has role user; the filler user turn
\* '(conversation start)' is put in front of the turn made from the first input
\* turn exactly when the first input turn is an assistant turn.
\* ---------------------------------------------------------------------------
C11_FirstTurnIsUser ==
  (fnPc = "returned" /\ fnIn # <<>>) =>
    /\ fnOut # <<>>
    /\ fnOut[1].role = "user"
    /\ IF fnIn[1].role = "assistant"
       THEN /\ fnOut[1] = FillerTurn
            /\ Len(fnOut) >= 2
            /\ StartsWith(fnOut[2], fnIn[1])
       ELSE StartsWith(fnOut[1], fnIn[1])

C11_Witness ==
  /\ fnPc = "returned"
  /\ Len(fnIn) = 3
  /\ fnIn[1].role = "assistant"
  /\ fnIn[2].role = "assistant"
  /\ fnOut[1] = FillerTurn
  /\ Len(fnOut) = 3

\* The turns after the filler, when one was put in front
Body(out, messages) ==
  IF messages # <<>> /\ messages[1].role # "user" THEN Tail(out) ELSE out

\* The maximal runs of consecutive same-role plain-text turns of a transcript,
\* each as one turn holding the run's texts joined by newline; a structured
\* turn ends the run before it
RECURSIVE PlainRuns(_)
PlainRuns(messages) ==
  IF messages = <<>> THEN <<>>
  ELSE LET rest == PlainRuns(Tail(messages))
           msg == messages[1]
       IN IF ~IsPlain(msg) THEN rest
          ELSE IF /\ Len(messages) >= 2
                  /\ IsPlain(messages[2])
                  /\ messages[2].role = msg.role
               THEN <<Turn(msg.role,
                           StringContent(msg.content.text \o <<NL>> \o rest[1].content.text))>>
                    \o Tail(rest)
               ELSE <<msg>> \o rest

PlainTurnsOf(messages) == SelectSeq(messages, IsPlain)

StructuredTurnsOf(messages) == SelectSeq(messages, LAMBDA turn : ~IsPlain(turn))

NoAdjacentSameRolePlain(out) ==
  \A i \in 1..(Len(out) - 1) :
    (IsPlain(out[i]) /\ IsPlain(out[i + 1])) => out[i].role # out[i + 1].role

\* ---------------------------------------------------------------------------
\* C12: the output of ensureAlternatingRoles has no two adjacent plain-text
\* turns of the same role, and its plain-text turns (the filler aside) are the
\* maximal runs of consecutive same-role plain-text input turns, each joined by
\* newline in input order: no plain-text content is lost or reordered.
\* ---------------------------------------------------------------------------
C12_PlainRunsMerged ==
  fnPc = "returned" =>
    /\ NoAdjacentSameRolePlain(fnOut)
    /\ PlainTurnsOf(Body(fnOut, fnIn)) = PlainRuns(fnIn)

\* ---------------------------------------------------------------------------
\* C13: a turn with the same role as the previous output turn, where either of
\* the two has structured content, is appended as it is: every structured
\* input turn is present in the output, in input order.
\* ---------------------------------------------------------------------------
C13_StructuredTurnsKept ==
  fnPc = "returned" => StructuredTurnsOf(fnOut) = StructuredTurnsOf(fnIn)

\* ---------------------------------------------------------------------------
\* The tool registry and the hint detector (tool-registry): a registry is the
\* sequence of its tools in registration order, names unique, each tool with
\* its core flag and its platform and category tags
\* ---------------------------------------------------------------------------

ToolDefinition(n, c, p, k) == [name |-> n, core |-> c, platform |-> p, category |-> k]

getCoreTools(registry) == SelectSeq(registry, LAMBDA tool : tool.core)

searchByPlatform(registry, platform) ==
  SelectSeq(registry, LAMBDA tool : tool.platform = platform)

searchByCategory(registry, category) ==
  SelectSeq(registry, LAMBDA tool : tool.category = category)

\* Keyword rules: a tag is hinted when one of its keywords occurs in the text
PlatformKeywords == << [tag |-> "amazon", words |-> {"amazon"}],
                       [tag |-> "ebay", words |-> {"ebay"}] >>

CategoryKeywords == << [tag |-> "analytics", words |-> {"profit", "margin"}] >>

RECURSIVE HintedTags(_, _)
HintedTags(rules, messageText) ==
  IF rules = <<>> THEN <<>>
  ELSE (IF \E w \in rules[1].words : Includes(messageText, <<w>>)
        THEN <<rules[1].tag>> ELSE <<>>)
       \o HintedTags(Tail(rules), messageText)

detectToolHints(messageText) ==
  [platforms |-> HintedTags(PlatformKeywords, messageText),
   categories |-> HintedTags(CategoryKeywords, messageText)]

\* ---------------------------------------------------------------------------
\* selectTools
\* ---------------------------------------------------------------------------

MAX_TOOLS == 50

MapSet_Append(selected, tool) == Append(selected, tool)

\* selected.set(tool.name, tool) on a Map, kept as the sequence of its values
\* in insertion order: a present key keeps its position
MapSet(selected, tool) ==
  IF \E i \in 1..Len(selected) : selected[i].name = tool.name
  THEN [i \in 1..Len(selected) |->
          IF selected[i].name = tool.name THEN tool ELSE selected[i]]
  ELSE Append(selected, tool)

\* A for loop of selected.set over tools, in order; a capped loop (the loops of
\* the hints) breaks at the first tool met while the map holds MAX_TOOLS
\* entries, and the map never shrinks. The passes over the first part of the
\* tools come first, then the passes over the rest.
RECURSIVE SetEach(_, _, _)
SetEach(selected, tools, capped) ==
  IF tools = <<>> THEN selected
  ELSE IF Len(tools) = 1
       THEN IF capped /\ Len(selected) >= MAX_TOOLS THEN selected
            ELSE MapSet(selected, tools[1])
       ELSE LET h == Len(tools) \div 2
                first == SetEach(selected, SubSeq(tools, 1, h), capped)
            IN IF Len(first) >= MAX_TOOLS /\ capped THEN first
               ELSE SetEach(first, SubSeq(tools, h + 1, Len(tools)), capped)

RECURSIVE AddPlatforms(_, _, _)
AddPlatforms(selected, registry, platforms) ==
  IF platforms = <<>> THEN selected
  ELSE AddPlatforms(SetEach(selected, searchByPlatform(registry, platforms[1]), TRUE),
                    registry, Tail(platforms))

RECURSIVE AddCategories(_, _, _)
AddCategories(selected, registry, categories) ==
  IF categories = <<>> THEN selected
  ELSE AddCategories(SetEach(selected, searchByCategory(registry, categories[1]), TRUE),
                     registry, Tail(categories))

selectTools_CapCore(registry, messageText) ==
  LET hints == detectToolHints(messageText)
      core == SetEach(<<>>, getCoreTools(registry), TRUE)
  IN AddCategories(AddPlatforms(core, registry, hints.platforms), registry, hints.categories)

selectTools_IgnoreHints(registry, messageText) ==
  SetEach(SetEach(<<>>, getCoreTools(registry), FALSE), registry, TRUE)

selectTools(registry, messageText) ==
  LET core == SetEach(<<>>, getCoreTools(registry), FALSE)
      hints == detectToolHints(messageText)
      withPlatforms == AddPlatforms(core, registry, hints.platforms)
  IN AddCategories(withPlatforms, registry, hints.categories)

\* ---------------------------------------------------------------------------
\* selectTools called on its own: registries of at most MaxMixed tools of any
\* kind, alone or next to a block of BlockSizes tools of one kind
\* ---------------------------------------------------------------------------

MaxMixed == 3

Kind(c, p, k) == [core |-> c, platform |-> p, category |-> k]

ToolKinds ==
  { Kind(TRUE, "general", "general"),
    Kind(TRUE, "amazon", "analytics"),
    Kind(FALSE, "amazon", "pricing"),
    Kind(FALSE, "ebay", "analytics"),
    Kind(FALSE, "general", "analytics") }

BlockKinds == { Kind(TRUE, "general", "general"), Kind(FALSE, "amazon", "pricing") }

BlockSizes == { MAX_TOOLS - 1, MAX_TOOLS, MAX_TOOLS + 1 }

MixedKinds == UNION { [1..n -> ToolKinds] : n \in 0..MaxMixed }

Block(kind, n) == [i \in 1..n |-> kind]

KindLists ==
  MixedKinds
  \cup { Block(b, n) \o ks : b \in BlockKinds, n \in BlockSizes, ks \in MixedKinds }
  \cup { ks \o Block(b, n) : b \in BlockKinds, n \in BlockSizes, ks \in MixedKinds }

\* registerAll: the i-th registered tool, named i
RegistryOf(kinds) ==
  [i \in 1..Len(kinds) |->
     ToolDefinition(i, kinds[i].core, kinds[i].platform, kinds[i].category)]

Registries == { RegistryOf(ks) : ks \in KindLists }

SelectTexts ==
  { <<"hello">>,
    <<"scan", SP, "amazon">>,
    <<"profit", SP, "on", SP, "ebay">>,
    <<"ebay", SP, "or", SP, "amazon", SP, "margin">> }

InitSelect ==
  /\ LoopOff
  /\ fnPc = "ready"
  /\ ext = <<>>
  /\ fnIn \in [registry : Registries, messageText : SelectTexts]
  /\ fnOut = <<>>

CallSelectTools ==
  /\ fnPc = "ready"
  /\ fnPc' = "returned"
  /\ fnOut' = selectTools(fnIn.registry, fnIn.messageText)
  /\ UNCHANGED <<fnIn, loopVars, ext>>

NextSelect == CallSelectTools

SpecSelect == InitSelect /\ [][NextSelect]_vars

Contains(tools, tool) == \E i \in 1..Len(tools) : tools[i] = tool

NoHints(messageText) ==
  /\ detectToolHints(messageText).platforms = <<>>
  /\ detectToolHints(messageText).categories = <<>>

\* ---------------------------------------------------------------------------
\* C14: the list returned by selectTools contains every tool returned by
\* registry.getCoreTools(), for every registry and every message text.
\* ---------------------------------------------------------------------------
C14_EveryCoreToolSelected ==
  fnPc = "returned" =>
    \A i \in 1..Len(fnIn.registry) :
      fnIn.registry[i].core => Contains(fnOut, fnIn.registry[i])

C14_Witness ==
  /\ fnPc = "returned"
  /\ Len(getCoreTools(fnIn.registry)) > MAX_TOOLS
  /\ ~NoHints(fnIn.messageText)
  /\ \E i \in 1..Len(fnIn.registry) :
       ~fnIn.registry[i].core /\ fnIn.registry[i].platform = "amazon"
  /\ Len(fnOut) = Len(getCoreTools(fnIn.registry))

\* ---------------------------------------------------------------------------
\* C15: selectTools returns at most 50 tools, whatever the number of core,
\* platform-matched and category-matched tools.
\* ---------------------------------------------------------------------------
C15_AtMostMaxTools ==
  fnPc = "returned" => Len(fnOut) <= MAX_TOOLS

\* ---------------------------------------------------------------------------
\* C16: when the hint detector finds no platform and no category in the
\* message text, selectTools returns exactly the core tools, in registry
\* order, and no other tool.
\* ---------------------------------------------------------------------------
C16_NoHintsGivesCore ==
  (fnPc = "returned" /\ NoHints(fnIn.messageText)) =>
    fnOut = SelectSeq(fnIn.registry, LAMBDA tool : tool.core)

C16_Witness ==
  /\ fnPc = "returned"
  /\ NoHints(fnIn.messageText)
  /\ Len(fnOut) = 2
  /\ Len(fnIn.registry) = 3
  /\ ~fnIn.registry[2].core

\* Where a value first occurs in a sequence (0 when it does not occur)
FirstIndex(seq, v) ==
  IF \E i \in 1..Len(seq) : seq[i] = v
  THEN CHOOSE i \in 1..Len(seq) : seq[i] = v /\ \A j \in 1..(i - 1) : seq[j] # v
  ELSE 0

\* The rule that inserts a tool first: 1 for a core tool, then the hinted
\* platforms in hint order, then the hinted categories in hint order (0 when
\* no rule matches the tool)
InsertionRule(tool, hints) ==
  LET p == FirstIndex(hints.platforms, tool.platform)
      k == FirstIndex(hints.categories, tool.category)
  IN IF tool.core THEN 1
     ELSE IF p > 0 THEN 1 + p
     ELSE IF k > 0 THEN 1 + Len(hints.platforms) + k
     ELSE 0

RegistryIndex(registry, tool) ==
  CHOOSE i \in 1..Len(registry) : registry[i].name = tool.name

\* ---------------------------------------------------------------------------
\* C17: the list returned by selectTools holds no two tools with the same name
\* and is in order of first insertion: the core tools, then the tools of the
\* hinted platforms, then the tools of the hinted categories, each group in
\* registry order; a tool matched by several rules stands where the first of
\* them inserted it. Tools are left out only once the list holds MAX_TOOLS.
\* ---------------------------------------------------------------------------
C17_DistinctInInsertionOrder ==
  fnPc = "returned" =>
    LET hints == detectToolHints(fnIn.messageText)
        registry == fnIn.registry
    IN /\ \A i, j \in 1..Len(fnOut) : fnOut[i].name = fnOut[j].name => i = j
       /\ \A i \in 1..Len(fnOut) :
            /\ \E r \in 1..Len(registry) : registry[r] = fnOut[i]
            /\ InsertionRule(fnOut[i], hints) > 0
       /\ \A i \in 1..(Len(fnOut) - 1) :
            \/ InsertionRule(fnOut[i], hints) < InsertionRule(fnOut[i + 1], hints)
            \/ /\ InsertionRule(fnOut[i], hints) = InsertionRule(fnOut[i + 1], hints)
               /\ RegistryIndex(registry, fnOut[i]) < RegistryIndex(registry, fnOut[i + 1])
       /\ \/ Len(fnOut) >= MAX_TOOLS
          \/ \A r \in 1..Len(registry) :
               InsertionRule(registry[r], hints) > 0 => Contains(fnOut, registry[r])

C17_Witness ==
  /\ fnPc = "returned"
  /\ Len(detectToolHints(fnIn.messageText).platforms) = 2
  /\ Len(detectToolHints(fnIn.messageText).categories) = 1
  /\ Len(fnIn.registry) = 3
  /\ fnIn.registry[1].platform = "ebay" /\ fnIn.registry[1].category = "analytics"
  /\ fnIn.registry[2].core /\ fnIn.registry[2].platform = "amazon"
  /\ fnIn.registry[3].platform = "amazon" /\ ~fnIn.registry[3].core
  /\ fnOut = <<fnIn.registry[2], fnIn.registry[3], fnIn.registry[1]>>

\* ---------------------------------------------------------------------------
\* executeTool called on its own, for every tool of the model, every set of
\* stored credentials, every behaviour of the outside world
\* ---------------------------------------------------------------------------

ExecuteToolNames ==
  { "scan_amazon", "scan_ebay", "scan_walmart", "scan_aliexpress", "ebay_get_policies",
    "check_stock", "fee_calculator", "no_such_tool" }

\* What the credentials manager may hold for a platform: nothing, the full
\* record, or (eBay) a record without refreshToken
StoredRecords(p) ==
  { NoCreds, StoredCreds(CredentialFields(p)) }
  \cup (IF p = "ebay" THEN { StoredCreds({"clientId", "clientSecret"}) } ELSE {})

CredentialStores == { c \in [Platforms -> UNION { StoredRecords(p) : p \in Platforms }] :
                        \A p \in Platforms : c[p] \in StoredRecords(p) }

DataStores == { {}, {"ebay"} }

InitExecute ==
  /\ LoopOff
  /\ fnPc = "ready"
  /\ ext = <<>>
  /\ fnIn \in [toolName : ExecuteToolNames, credentials : CredentialStores,
               env : ToolEnvs, db : DataStores]
  /\ fnOut = <<>>

CallExecuteTool ==
  /\ fnPc = "ready"
  /\ fnPc' = "returned"
  /\ fnOut' = executeTool(fnIn.toolName, NoInput, fnIn.credentials, fnIn.env, fnIn.db)
  /\ UNCHANGED <<fnIn, loopVars, ext>>

NextExecute == CallExecuteTool

SpecExecute == InitExecute /\ [][NextExecute]_vars

\* The platform whose stored credentials a tool checks before anything else
GatePlatform ==
  [t \in {"scan_amazon", "scan_ebay", "scan_walmart", "scan_aliexpress", "ebay_get_policies"}
     |-> CASE t = "scan_amazon" -> "amazon"
           [] t = "scan_ebay" -> "ebay"
           [] t = "scan_walmart" -> "walmart"
           [] t = "scan_aliexpress" -> "aliexpress"
           [] t = "ebay_get_policies" -> "ebay"]

MissingCredentialsText(t) ==
  IF t = "ebay_get_policies" THEN <<"eBay credentials with refresh token required.">>
  ELSE NotConfiguredText(GatePlatform[t])

\* ---------------------------------------------------------------------------
\* C18: for a credential-gated tool, when nothing is stored for its platform,
\* executeTool returns (does not throw) an error payload saying that the
\* credentials are missing, has not called the platform wrapper and has left
\* the data store as it was.
\* ---------------------------------------------------------------------------
C18_GateBeforeWrapperAndStore ==
  (/\ fnPc = "returned"
   /\ fnIn.toolName \in DOMAIN GatePlatform
   /\ ~fnIn.credentials[GatePlatform[fnIn.toolName]].stored) =>
    /\ ~fnOut.threw
    /\ fnOut.value.status = "error"
    /\ fnOut.value.message = MissingCredentialsText(fnIn.toolName)
    /\ ~fnOut.invoked
    /\ fnOut.products = fnIn.db

C18_Witness ==
  /\ fnPc = "returned"
  /\ fnIn.toolName = "scan_walmart"
  /\ ~fnIn.credentials["walmart"].stored
  /\ fnIn.credentials["amazon"].stored
  /\ fnIn.env = "store_fails"
  /\ fnIn.db # {}
  /\ fnOut.value.status = "error"
  /\ fnOut.products = fnIn.db

\* ---------------------------------------------------------------------------
\* Observations on one handleMessage call (specification Spec)
\* ---------------------------------------------------------------------------

\* The tool invocations of a response content, in order
Invocations(content) == SelectSeq(content, LAMBDA b : b.type = "tool_use")

RECURSIVE InvocationsIn(_)
\* How many tool invocations the assistant turns of a transcript hold
InvocationsIn(msgs) ==
  IF msgs = <<>> THEN 0
  ELSE (IF IsToolRound(msgs[1]) THEN Len(Invocations(msgs[1].content.blocks)) ELSE 0)
       + InvocationsIn(Tail(msgs))

Running == pc \in {"awaiting_model", "executing_tools"}

\* ---------------------------------------------------------------------------
\* C19: every tool invocation of a model response is passed to executeTool
\* exactly once, in order: while the round runs the executions made are the
\* first invocations of the response, once it is over they are all of them,
\* and the call has made as many executions as its responses held invocations,
\* whether executions succeeded or failed.
\* ---------------------------------------------------------------------------
C19_EachInvocationExecutedOnce ==
  LET invs == Invocations(response.content)
  IN /\ Len(executed) <= Len(invs)
     /\ \A i \in 1..Len(executed) :
          executed[i].id = invs[i].id /\ executed[i].name = invs[i].name
     /\ pc = "executing_tools" =>
          /\ Len(executed) < Len(invs)
          /\ toolCalls = InvocationsIn(currentMessages) + Len(executed)
     /\ pc # "executing_tools" =>
          /\ Len(executed) = Len(invs)
          /\ toolCalls = InvocationsIn(currentMessages)

C19_Witness ==
  /\ pc = "done"
  /\ Len(Invocations(response.content)) = 2
  /\ Len(executed) = 2
  /\ \E i \in 1..2 : executed[i].threw
  /\ toolCalls >= 3

\* ---------------------------------------------------------------------------
\* C20: one handleMessage call appends to the session history the user's
\* (trimmed) message, before the first model call, and, when the final text is
\* non-empty, one assistant message equal to the returned text, when the loop
\* has ended; nothing else is written: the assistant turns with tool
\* invocations and the tool-result turns stay out of the history. (A message
\* whose trimmed text is empty is not handled and leaves the history alone.)
\* ---------------------------------------------------------------------------
C20_HistoryGetsUserAndFinalText ==
  [][ /\ (pc = "idle" /\ pc' # "idle") =>
           IF Trim(msgText') = <<>>
           THEN history' = history /\ modelCalls' = 0
           ELSE /\ history' = Append(history, [role |-> "user", content |-> Trim(msgText')])
                /\ pc' = "awaiting_model"
      /\ (Running /\ pc' # "done") => history' = history
      /\ (Running /\ pc' = "done") =>
           /\ outcome'.state = "resolved"
           /\ history' = IF outcome'.isNull THEN history
                         ELSE Append(history, [role |-> "assistant", content |-> outcome'.text])
           /\ ~outcome'.isNull => outcome'.text # <<>>
    ]_vars

C20_Witness ==
  /\ pc = "done"
  /\ HasText
  /\ toolCalls >= 2
  /\ Len(history) >= 3
  /\ history[Len(history) - 1] = [role |-> "user", content |-> Trim(msgText)]
  /\ Last(history) = [role |-> "assistant", content |-> outcome.text]
  /\ Len(currentMessages) > Len(history)

\* ---------------------------------------------------------------------------
\* The gateway's onMessage: the messages of several sessions, each handled by
\* agentManager.handleMessage. The channel manager hands a session's messages
\* to onMessage one at a time; different sessions run side by side.
\* ---------------------------------------------------------------------------

SessionKeys == {"s1", "s2"}

IncomingIds == {"m1", "m2", "m3"}

\* message.text of an incoming message: its own words, or blank
IncomingTexts(m) == { <<SP, m, NL>>, <<SP>> }

\* The final text of the loop for a message: an answer to it, or nothing
FinalTexts(m) == { <<"re:", m>>, <<>> }

NoHandling == [msg |-> "", text |-> <<>>]

\* The caller starts onMessage for a session only when the session's previous
\* message has been handled
MayDeliver(handling, s) == handling[s] = NoHandling

InitGateway ==
  /\ LoopOff
  /\ fnPc = "off"
  /\ fnIn = <<>>
  /\ fnOut = <<>>
  /\ ext = [history |-> [s \in SessionKeys |-> <<>>],
            handling |-> [s \in SessionKeys |-> NoHandling],
            delivered |-> {},
            handled |-> [s \in SessionKeys |-> <<>>],
            sent |-> [s \in SessionKeys |-> <<>>]]

\* onMessage up to the first model call of handleMessage: the hook, the
\* session, the trimmed text, the user entry of the history
OnMessage(s, m, text, cancelled) ==
  /\ m \notin ext.delivered
  /\ MayDeliver(ext.handling, s)
  /\ IF cancelled \/ Trim(text) = <<>>
     THEN ext' = [ext EXCEPT !.delivered = @ \cup {m}]
     ELSE ext' = [ext EXCEPT
                    !.delivered = @ \cup {m},
                    !.history[s] = Append(@, [role |-> "user", content |-> Trim(text)]),
                    !.handling[s] = [msg |-> m, text |-> Trim(text)]]
  /\ UNCHANGED <<loopVars, fnVars>>

\* handleMessage after its loop, and the rest of onMessage: the assistant entry
\* of the history, the reply sent to the channel
HandleMessageReturns(s, text) ==
  /\ ext.handling[s] # NoHandling
  /\ ext' = [ext EXCEPT
               !.history[s] = SaveAssistant(@, text),
               !.handling[s] = NoHandling,
               !.handled[s] = Append(@, [msg |-> ext.handling[s].msg,
                                         text |-> ext.handling[s].text,
                                         reply |-> text]),
               !.sent[s] = IF text # <<>> THEN Append(@, text) ELSE @]
  /\ UNCHANGED <<loopVars, fnVars>>

SpecGateway ==
  /\ InitGateway
  /\ [][
     \/ \E s \in SessionKeys, m \in IncomingIds, cancelled \in BOOLEAN :
          \E text \in IncomingTexts(m) : OnMessage(s, m, text, cancelled)
     \/ \E s \in SessionKeys :
          \E text \in FinalTexts(ext.handling[s].msg) : HandleMessageReturns(s, text)
     ]_vars

RECURSIVE ExchangesOf(_)
\* What the handled messages of a session leave in its history, in order: the
\* user entry, then the assistant entry when the reply is not empty
ExchangesOf(handled) ==
  IF handled = <<>> THEN <<>>
  ELSE <<[role |-> "user", content |-> handled[1].text]>>
       \o (IF handled[1].reply # <<>>
           THEN <<[role |-> "assistant", content |-> handled[1].reply]>> ELSE <<>>)
       \o ExchangesOf(Tail(handled))

\* The user entry of the message being handled
InProgressOf(handling) ==
  IF handling = NoHandling THEN <<>>
  ELSE <<[role |-> "user", content |-> handling.text]>>

C22_SubmittedTranscriptAlternates ==
  pc = "awaiting_model" =>
    /\ currentMessages # <<>>
    /\ currentMessages[1].role = "user"
    /\ Last(currentMessages).role = "user"
    /\ \A i \in 1..(Len(currentMessages) - 1) :
         /\ currentMessages[i].role \in {"user", "assistant"}
         /\ currentMessages[i].role # currentMessages[i + 1].role

C22_Witness ==
  /\ pc = "awaiting_model"
  /\ contextSummary # <<>>
  /\ iterations = 3
  /\ Len(currentMessages) = 7
  /\ Includes(currentMessages[3].content.text, <<NL>>)

\* ---------------------------------------------------------------------------
\* platforms/ebay/auth: getAccessToken and its module-level token cache.
\* Time is in seconds; a token is what the token endpoint issued: the grant
\* it was issued for and when it expires.
\* ---------------------------------------------------------------------------

MaxNow == 150

\* cached.expiresAt - 60_000, in seconds
EXPIRY_MARGIN == 60

NoToken == [grant |-> "", expiresAt |-> 0]

EbayAuthConfigs ==
  [clientId : {"app1"}, environment : {"production", "sandbox"}, refreshToken : BOOLEAN]

\* cacheKey = `${config.clientId}:${env}`
CacheKey(config) == <<config.clientId, config.environment>>

\* The grant_type of the request body
GrantOf(config) == IF config.refreshToken THEN "refresh_token" ELSE "client_credentials"

CacheHit_NoMargin(cached, now) == cached # NoToken /\ now < cached.expiresAt

\* if (cached && Date.now() < cached.expiresAt - 60_000)
CacheHit(cached, now) == cached # NoToken /\ now < cached.expiresAt - EXPIRY_MARGIN

\* expires_in of a token response, in seconds: the endpoint issues tokens that
\* live longer than the margin (eBay access tokens live 7200 seconds)
TokenLifetimes == {90, 120}

NoCall ==
  [config |-> [clientId |-> "", environment |-> "", refreshToken |-> FALSE], at |-> 0,
   cached |-> NoToken, requested |-> FALSE, threw |-> FALSE, token |-> NoToken]

InitEbayAuth ==
  /\ LoopOff
  /\ fnPc = "off"
  /\ fnIn = <<>>
  /\ fnOut = <<>>
  /\ ext = [tokenCache |-> [k \in {CacheKey(c) : c \in EbayAuthConfigs} |-> NoToken],
            now |-> 0,
            last |-> NoCall]

\* One getAccessToken call: the cached token, or a token request that the
\* endpoint answers with a token of some lifetime (expires_in) or refuses
GetAccessToken(config, ok, expires_in) ==
  LET cached == ext.tokenCache[CacheKey(config)]
      call == [config |-> config, at |-> ext.now, cached |-> cached,
               requested |-> FALSE, threw |-> FALSE, token |-> NoToken]
      token == [grant |-> GrantOf(config), expiresAt |-> ext.now + expires_in]
  IN /\ IF CacheHit(cached, ext.now)
        THEN ext' = [ext EXCEPT !.last = [call EXCEPT !.token = cached]]
        ELSE IF ~ok
        THEN ext' = [ext EXCEPT !.last = [call EXCEPT !.requested = TRUE, !.threw = TRUE]]
        ELSE ext' = [ext EXCEPT
                       !.tokenCache[CacheKey(config)] = token,
                       !.last = [call EXCEPT !.requested = TRUE, !.token = token]]
     /\ UNCHANGED <<loopVars, fnVars>>

\* Date.now() moves on
Tick(d) ==
  /\ ext.now + d <= MaxNow
  /\ ext' = [ext EXCEPT !.now = @ + d]
  /\ UNCHANGED <<loopVars, fnVars>>

SpecEbayAuth ==
  /\ InitEbayAuth
  /\ [][
     \/ \E config \in EbayAuthConfigs, ok \in BOOLEAN, expires_in \in TokenLifetimes :
          GetAccessToken(config, ok, expires_in)
     \/ Tick(30)
     ]_vars

\* getAccessToken has returned a token
TokenReturned == ext.last # NoCall /\ ~ext.last.threw

C24_RefreshConfigGetsRefreshGrant ==
  (TokenReturned /\ ext.last.config.refreshToken) => ext.last.token.grant = "refresh_token"

\* ---------------------------------------------------------------------------
\* Listing creation on eBay: createAndPublishListing (platforms/ebay/seller),
\* createListing (listing/creator) and the create_ebay_listing case of
\* executeTool. stepOk[i] tells whether the i-th request to eBay succeeds.
\* ---------------------------------------------------------------------------

ListingSteps == <<"createInventoryItem", "createOffer", "publishOffer">>

\* Mutant: a failed step does not stop the protocol
createAndPublishListing_KeepsGoing(stepOk, listingId) ==
  [threw |-> ~stepOk[3], steps |-> ListingSteps, listingId |-> listingId]

\* createAndPublishListing: every step is awaited, and a step that fails throws
createAndPublishListing(stepOk, listingId) ==
  IF ~stepOk[1] THEN [threw |-> TRUE, steps |-> SubSeq(ListingSteps, 1, 1), listingId |-> ""]
  ELSE IF ~stepOk[2]
  THEN [threw |-> TRUE, steps |-> SubSeq(ListingSteps, 1, 2), listingId |-> ""]
  ELSE IF ~stepOk[3] THEN [threw |-> TRUE, steps |-> ListingSteps, listingId |-> ""]
  ELSE [threw |-> FALSE, steps |-> ListingSteps, listingId |-> listingId]

\* createListing('ebay', draft, { ebay }): the two credential gates, then the
\* protocol inside try/catch
createListing(ebay, stepOk, listingId) ==
  IF ~ebay.stored \/ "refreshToken" \notin ebay.fields
  THEN [success |-> FALSE, steps |-> <<>>, listingId |-> ""]
  ELSE LET result == createAndPublishListing(stepOk, listingId)
       IN [success |-> ~result.threw, steps |-> result.steps,
           listingId |-> result.listingId]

\* case 'create_ebay_listing': the listing row is added when the result is a
\* success with a listingId
CreateEbayListing(creds, stepOk, listingId, listings) ==
  LET result == createListing(creds.ebay, stepOk, listingId)
  IN [status |-> IF result.success THEN "ok" ELSE "error",
      steps |-> result.steps,
      listings |-> IF result.success /\ result.listingId # ""
                   THEN listings \cup {[platformListingId |-> result.listingId,
                                        status |-> "active"]}
                   ELSE listings]

InitListing ==
  /\ LoopOff
  /\ fnPc = "ready"
  /\ ext = <<>>
  /\ fnIn \in [ebay : StoredRecords("ebay"), stepOk : [1..3 -> BOOLEAN],
               listingId : {"", "v1|110"},
               listings : {{}, {[platformListingId |-> "v1|7", status |-> "active"]}}]
  /\ fnOut = <<>>

CallCreateEbayListing ==
  /\ fnPc = "ready"
  /\ fnPc' = "returned"
  /\ fnOut' = CreateEbayListing(getUserCreds([p \in Platforms |->
                                   IF p = "ebay" THEN fnIn.ebay ELSE NoCreds]),
                                fnIn.stepOk, fnIn.listingId, fnIn.listings)
  /\ UNCHANGED <<fnIn, loopVars, ext>>

SpecListing == InitListing /\ [][CallCreateEbayListing]_vars

\* ---------------------------------------------------------------------------
\* C25: the requests made to eBay are createInventoryItem, createOffer,
\* publishOffer in that order, each made only after the one before succeeded
\* and none after a failed one; create_ebay_listing adds a listing row only
\* when all three succeeded, and then exactly one.
\* ---------------------------------------------------------------------------
C25_RowOnlyAfterThreeSteps ==
  fnPc = "returned" =>
    /\ Len(fnOut.steps) <= 3
    /\ fnOut.steps = SubSeq(<<"createInventoryItem", "createOffer", "publishOffer">>,
                            1, Len(fnOut.steps))
    /\ \A i \in 1..Len(fnOut.steps) : i < Len(fnOut.steps) => fnIn.stepOk[i]
    /\ fnOut.listings # fnIn.listings =>
         /\ Len(fnOut.steps) = 3
         /\ \A i \in 1..3 : fnIn.stepOk[i]
         /\ fnOut.status = "ok"
         /\ fnIn.listings \subseteq fnOut.listings
         /\ Cardinality(fnOut.listings \ fnIn.listings) = 1

C25_Witness ==
  /\ fnPc = "returned"
  /\ fnIn.listings # {}
  /\ Cardinality(fnOut.listings) = 2
  /\ fnOut.steps = ListingSteps

\* ---------------------------------------------------------------------------
\* AliExpress OAuth tokens: getValidAliExpressToken and its oauthTokenCache,
\* one entry per appKey (one appKey is modelled). The refresh endpoint accepts
\* the refresh tokens in `accepts` at the time of the call and answers with a
\* new access token and a refresh token.
\* ---------------------------------------------------------------------------

AliRefreshTokens == {"rt1", "rt2"}

NoOAuthToken == [present |-> FALSE, refreshToken |-> "", expiresAt |-> 0,
                 refreshExpiresAt |-> 0]

InitAliToken ==
  /\ LoopOff
  /\ fnPc = "off"
  /\ fnIn = <<>>
  /\ fnOut = <<>>
  /\ ext = [oauthTokenCache |-> NoOAuthToken, now |-> 0, last |-> NoCall]

\* getValidAliExpressToken(config, storedRefreshToken); "" is no stored token,
\* and a token that is not present is the null the function returns
GetValidAliExpressToken(storedRefreshToken, accepts, newRefreshToken, expires_in) ==
  LET cached == ext.oauthTokenCache
      rtToUse == IF cached.present THEN cached.refreshToken ELSE storedRefreshToken
      call == [stored |-> storedRefreshToken, accepts |-> accepts, at |-> ext.now,
               cached |-> cached, refreshed |-> FALSE, token |-> NoOAuthToken]
      newToken == [present |-> TRUE, refreshToken |-> newRefreshToken,
                   expiresAt |-> ext.now + expires_in,
                   refreshExpiresAt |-> ext.now + expires_in + 30]
  IN /\ IF cached.present /\ ext.now < cached.expiresAt - EXPIRY_MARGIN
        THEN ext' = [ext EXCEPT !.last = [call EXCEPT !.token = cached]]
        ELSE IF rtToUse = ""
        THEN ext' = [ext EXCEPT !.last = call]
        ELSE IF cached.present /\ ext.now > cached.refreshExpiresAt
        THEN ext' = [ext EXCEPT !.last = call]
        ELSE IF rtToUse \notin accepts
        THEN ext' = [ext EXCEPT !.last = [call EXCEPT !.refreshed = TRUE]]
        ELSE ext' = [ext EXCEPT
                       !.oauthTokenCache = newToken,
                       !.last = [call EXCEPT !.refreshed = TRUE, !.token = newToken]]
     /\ UNCHANGED <<loopVars, fnVars>>

SpecAliToken ==
  /\ InitAliToken
  /\ [][
     \/ \E stored \in AliRefreshTokens \cup {""}, accepts \in SUBSET AliRefreshTokens,
           newRefreshToken \in AliRefreshTokens, expires_in \in TokenLifetimes :
          GetValidAliExpressToken(stored, accepts, newRefreshToken, expires_in)
     \/ Tick(30)
     ]_vars

\* ---------------------------------------------------------------------------
\* C26: whatever calls were made before, getValidAliExpressToken returns a
\* token (not null) whenever the storedRefreshToken it is given is one the
\* refresh endpoint accepts.
\* ---------------------------------------------------------------------------
C26_AcceptedStoredTokenYieldsToken ==
  (ext.last # NoCall /\ ext.last.stored # "" /\ ext.last.stored \in ext.last.accepts)
    => ext.last.token.present

\* ---------------------------------------------------------------------------
\* The credential setup tools of executeTool and the scanners that read what
\* they stored. One user is modelled; ext.credentials is that user's store.
\* ---------------------------------------------------------------------------

\* credentials.setCredentials(userId, platform, data): data becomes the record
setCredentials(store, platform, fields) ==
  [store EXCEPT ![platform] = StoredCreds(fields)]

\* The fields a setup tool merges into the record it shares
MergedFields(toolName) ==
  CASE toolName = "setup_amazon_sp_credentials" ->
         {"spClientId", "spClientSecret", "spRefreshToken"}
    [] toolName = "setup_keepa_credentials" -> {"keepaApiKey"}
    [] toolName = "setup_easypost_credentials" -> {"easypostApiKey"}
    [] toolName = "setup_walmart_seller_credentials" ->
         {"sellerClientId", "sellerClientSecret"}
    [] OTHER -> {}

\* The record a setup tool writes
SetupRecord ==
  [toolName \in {"setup_amazon_credentials", "setup_ebay_credentials",
                 "setup_walmart_credentials", "setup_amazon_sp_credentials",
                 "setup_keepa_credentials", "setup_easypost_credentials",
                 "setup_walmart_seller_credentials"} |->
     CASE toolName \in {"setup_amazon_credentials", "setup_amazon_sp_credentials",
                        "setup_keepa_credentials"} -> "amazon"
       [] toolName \in {"setup_ebay_credentials", "setup_easypost_credentials"} -> "ebay"
       [] OTHER -> "walmart"]

\* cases 'setup_*': the first three store credData as the record, the others
\* store { ...existing, <their fields> }
SetupCredentials(toolName, store) ==
  LET platform == SetupRecord[toolName]
  IN IF MergedFields(toolName) = {}
     THEN setCredentials(store, platform, CredentialFields(platform))
     ELSE setCredentials(store, platform,
                         getUserCreds(store)[platform].fields \cup MergedFields(toolName))

InitCredentialStore ==
  /\ LoopOff
  /\ fnPc = "off"
  /\ fnIn = <<>>
  /\ fnOut = <<>>
  /\ ext = [credentials |-> [p \in Platforms |-> NoCreds],
            last |-> [toolName |-> "", credentials |-> [p \in Platforms |-> NoCreds],
                      out |-> Returned(ToolValue("", <<>>, <<>>), {})]]

RunSetup(toolName) ==
  /\ ext' = [ext EXCEPT !.credentials = SetupCredentials(toolName, @)]
  /\ UNCHANGED <<loopVars, fnVars>>

RunScan(toolName) ==
  /\ ext' = [ext EXCEPT !.last = [toolName |-> toolName,
                                  credentials |-> ext.credentials,
                                  out |-> executeTool(toolName, NoInput, ext.credentials,
                                                      "ok", {})]]
  /\ UNCHANGED <<loopVars, fnVars>>

SpecCredentialStore ==
  /\ InitCredentialStore
  /\ [][
     \/ \E toolName \in DOMAIN SetupRecord : RunSetup(toolName)
     \/ \E toolName \in {"scan_amazon", "scan_ebay", "scan_walmart"} : RunScan(toolName)
     ]_vars

\* ---------------------------------------------------------------------------
\* C27: the SP-API fields and the Keepa key of the 'amazon' record, the
\* EasyPost key of the 'ebay' record and the seller fields of the 'walmart'
\* record, once stored, are still stored after every later setup call.
\* ---------------------------------------------------------------------------
C27_SharedFieldsSurvive ==
  [][\A p \in {"amazon", "ebay", "walmart"} :
       \A f \in {"spClientId", "spClientSecret", "spRefreshToken", "keepaApiKey",
                 "easypostApiKey", "sellerClientId", "sellerClientSecret"} :
         f \in ext.credentials[p].fields => f \in ext'.credentials[p].fields]_vars

\* ---------------------------------------------------------------------------
\* C28: a scanner goes to its platform only when the product-API credentials
\* of that platform are stored; a record that holds only a Keepa key, SP-API
\* fields, an EasyPost key or Walmart seller fields gets the 'credentials not
\* configured' error.
\* ---------------------------------------------------------------------------
C28_ScanNeedsProductCredentials ==
  \A t \in {"scan_amazon", "scan_ebay", "scan_walmart"} :
    ext.last.toolName = t =>
      LET p == GatePlatform[t]
      IN IF CredentialFields(p) \subseteq ext.last.credentials[p].fields
         THEN ext.last.out.invoked
         ELSE /\ ~ext.last.out.invoked
              /\ ext.last.out.value = ToolValue("error", <<>>, NotConfiguredText(p))

\* ---------------------------------------------------------------------------
\* The status of stored listings: the pause_listing, resume_listing,
\* delete_listing, batch_reprice and inventory_sync cases of executeTool.
\* ext.status[id] is the status column of row id ("none": no such row),
\* ext.deleted the listings for which delete_listing has returned 'ok'. The
\* request to eBay that the first three make for an eBay listing is inside a
\* try/catch that only logs, so the status is written whatever eBay answers.
\* ---------------------------------------------------------------------------

ListingIds == {"l1", "l2", "l3"}

\* SELECT ... FROM listings WHERE id = ? AND status = 'active', for each id
ActiveListings(status, ids) == { id \in ids : status[id] = "active" }

InitListingStatus ==
  /\ LoopOff
  /\ fnPc = "off"
  /\ fnIn = <<>>
  /\ fnOut = <<>>
  /\ ext \in [status : [ListingIds -> {"none", "active"}], deleted : {{}},
              repriced : {{}}]

\* case 'pause_listing'
PauseListing(listingId) ==
  /\ ext' = IF ext.status[listingId] = "none" THEN ext
            ELSE [ext EXCEPT !.status[listingId] = "paused"]
  /\ UNCHANGED <<loopVars, fnVars>>

\* case 'resume_listing'
ResumeListing(listingId) ==
  /\ ext' = IF ext.status[listingId] = "none" THEN ext
            ELSE [ext EXCEPT !.status[listingId] = "active"]
  /\ UNCHANGED <<loopVars, fnVars>>

\* case 'delete_listing'
DeleteListing(listingId) ==
  /\ ext' = IF ext.status[listingId] = "none" THEN ext
            ELSE [ext EXCEPT !.status[listingId] = "expired",
                             !.deleted = @ \cup {listingId}]
  /\ UNCHANGED <<loopVars, fnVars>>

\* case 'batch_reprice': the active listings among listingIds get a new price
BatchReprice(listingIds) ==
  /\ ext' = [ext EXCEPT !.repriced = ActiveListings(ext.status, listingIds)]
  /\ UNCHANGED <<loopVars, fnVars>>

\* case 'inventory_sync': every active listing among listingIds whose source
\* product is found out of stock is paused; a failed stock check is skipped
InventorySync(listingIds, stock) ==
  /\ ext' = [ext EXCEPT !.status =
               [id \in ListingIds |->
                  IF id \in ActiveListings(ext.status, listingIds) /\ stock[id] = "out"
                  THEN "paused" ELSE @[id]]]
  /\ UNCHANGED <<loopVars, fnVars>>

SpecListingStatus ==
  /\ InitListingStatus
  /\ [][
     \/ \E listingId \in ListingIds : PauseListing(listingId)
     \/ \E listingId \in ListingIds : ResumeListing(listingId)
     \/ \E listingId \in ListingIds : DeleteListing(listingId)
     \/ \E listingIds \in SUBSET ListingIds : BatchReprice(listingIds)
     \/ \E listingIds \in SUBSET ListingIds, stock \in [ListingIds -> {"in", "out", "fails"}] :
          InventorySync(listingIds, stock)
     ]_vars

\* ---------------------------------------------------------------------------
\* C29: a listing for which delete_listing has returned has the status
\* 'expired' from then on, whatever pause_listing, resume_listing,
\* batch_reprice and inventory_sync calls follow.
\* ---------------------------------------------------------------------------
C29_DeletedStaysExpired ==
  \A id \in ext.deleted : ext.status[id] = "expired"

\* ---------------------------------------------------------------------------
\* The gateway's start() and stop() (createGateway). Each await in them is a
\* point where another call can run: ext.pc[c] is where the start() call of
\* caller c stands, ext.stopping tells that a stop() call is past its guard.
\* httpStarts, channelStarts and cronStarts count the calls of
\* httpServer.start(), channelManager.start() and cron.start() since the
\* gateway was created or last stopped.
\* ---------------------------------------------------------------------------

Callers == {"c1", "c2"}

InitLifecycle ==
  /\ LoopOff
  /\ fnPc = "off"
  /\ fnIn = <<>>
  /\ fnOut = <<>>
  /\ ext = [started |-> FALSE, pc |-> [c \in Callers |-> "idle"], stopping |-> FALSE,
            httpStarts |-> 0, channelStarts |-> 0, cronStarts |-> 0, last |-> ""]

\* start(): `if (started) return;`, then httpServer.start() is called
StartHttpServer(c) ==
  /\ ext.pc[c] = "idle"
  /\ ext' = IF ext.started THEN [ext EXCEPT !.last = "start: already started"]
            ELSE [ext EXCEPT !.pc[c] = "httpServer", !.httpStarts = @ + 1,
                             !.last = "start"]
  /\ UNCHANGED <<loopVars, fnVars>>

\* httpServer.start() has resolved: channelManager.start() is called
StartChannelManager(c) ==
  /\ ext.pc[c] = "httpServer"
  /\ ext' = [ext EXCEPT !.pc[c] = "channelManager", !.channelStarts = @ + 1]
  /\ UNCHANGED <<loopVars, fnVars>>

\* channelManager.start() has resolved: cron.start(), hooks.emit('gateway:start')
StartCron(c) ==
  /\ ext.pc[c] = "channelManager"
  /\ ext' = [ext EXCEPT !.pc[c] = "hooks", !.cronStarts = @ + 1]
  /\ UNCHANGED <<loopVars, fnVars>>

\* the hooks have run: started = true
StartReturns(c) ==
  /\ ext.pc[c] = "hooks"
  /\ ext' = [ext EXCEPT !.pc[c] = "idle", !.started = TRUE]
  /\ UNCHANGED <<loopVars, fnVars>>

\* stop(): `if (!started) return;`, then hooks.emit('gateway:stop')
StopBegins ==
  /\ ~ext.stopping
  /\ ext' = IF ~ext.started THEN [ext EXCEPT !.last = "stop: not started"]
            ELSE [ext EXCEPT !.stopping = TRUE, !.last = "stop"]
  /\ UNCHANGED <<loopVars, fnVars>>

\* the rest of stop(): cron, queue, channels, HTTP server and database are
\* stopped, started = false
StopReturns ==
  /\ ext.stopping
  /\ ext' = [ext EXCEPT !.stopping = FALSE, !.started = FALSE, !.httpStarts = 0,
                        !.channelStarts = 0, !.cronStarts = 0]
  /\ UNCHANGED <<loopVars, fnVars>>

SpecLifecycle ==
  /\ InitLifecycle
  /\ [][
     \/ \E c \in Callers : StartHttpServer(c)
     \/ \E c \in Callers : StartChannelManager(c)
     \/ \E c \in Callers : StartCron(c)
     \/ \E c \in Callers : StartReturns(c)
     \/ StopBegins
     \/ StopReturns
     ]_vars

\* ---------------------------------------------------------------------------
\* C30: between the gateway's creation and stop(), the HTTP server, the
\* channel manager and the cron scheduler are each started at most once,
\* however the start() calls interleave.
\* ---------------------------------------------------------------------------
C30_StartedAtMostOnce ==
  /\ ext.httpStarts <= 1
  /\ ext.channelStarts <= 1
  /\ ext.cronStarts <= 1

====
